---- MODULE Spec2Model ----
(***************************************************************************)
(* A model of nac-collector's Meraki collection path:                      *)
(*   - GithubRepoWrapper.parent_children / move_meraki_root_to_child       *)
(*     (github_repo_wrapper.py): the endpoint-tree compiler;               *)
(*   - CiscoClientMERAKI.get_from_endpoints_data /                         *)
(*     get_from_children_endpoints / process_endpoint_data / get_id_value  *)
(*     (controller/meraki.py): the recursive walk;                         *)
(*   - the legacy client's get_id_value and resolve_domains                *)
(*     (cisco_client_meraki.py).                                           *)
(*                                                                         *)
(* Representation.  A Python str that is a URI or a URI template is a      *)
(* sequence of tokens: "/", "%v", "%s", "{DOMAIN_UUID}" and literal path   *)
(* words (a word holds no '/', '%' or '{').  Substring tests, partition,   *)
(* rstrip and replace are computed on the token sequence.  A JSON scalar   *)
(* is a tagged value [t, v] whose v is the text Python's str() gives it,   *)
(* so that formatting an identifier into a URI is the token v.  A Python   *)
(* dict is a function from key strings to values.                          *)
(***************************************************************************)
EXTENDS Integers, Sequences, FiniteSets, TLC

(***************************************************************************)
(* JSON values                                                             *)
(***************************************************************************)
StrV(s) == [t |-> "str", v |-> s]
IntV(s) == [t |-> "int", v |-> s]
\* a JSON boolean: a Python bool, which isinstance(x, int) accepts
BoolV(s) == [t |-> "bool", v |-> s]
FloatV(s) == [t |-> "float", v |-> s]
None == [t |-> "null", v |-> "None"]
ListV(l) == [t |-> "list", l |-> l]
MapV(m) == [t |-> "map", m |-> m]
EmptyDict == [x \in {} |-> None]

\* dict[k] = v (insert or overwrite)
SetKey(d, k, v) == [x \in (DOMAIN d) \cup {k} |-> IF x = k THEN v ELSE d[x]]
\* del dict[k]
DelKey(d, k) == [x \in (DOMAIN d) \ {k} |-> d[x]]
\* dict.get(k) seen as a truth value, for the keys whose value is a list or a flag
HasKey(d, k) == k \in DOMAIN d

\* Python truthiness of a JSON value
Truthy(val) ==
    CASE val.t = "null" -> FALSE
      [] val.t = "list" -> val.l /= <<>>
      [] val.t = "str" -> val.v /= ""
      [] val.t = "int" -> val.v /= "0"
      [] val.t = "bool" -> val.v = "True"
      [] val.t = "float" -> val.v /= "0.0"
      [] val.t = "map" -> DOMAIN val.m /= {}
      [] OTHER -> TRUE

(***************************************************************************)
(* str operations on token sequences                                       *)
(***************************************************************************)
SLASH == "/"
PV == "%v"
PS == "%s"
DOMAIN_UUID == "{DOMAIN_UUID}"

\* tok in s
InStr(tok, s) == \E i \in 1..Len(s) : s[i] = tok

\* sub in s, for a sequence of tokens sub
SubStr(sub, s) ==
    \E i \in 1..(Len(s) - Len(sub) + 1) : SubSeq(s, i, i + Len(sub) - 1) = sub

\* index of the first occurrence of tok in s (tok occurs in s)
FirstIndex(tok, s) == CHOOSE i \in 1..Len(s) : s[i] = tok /\ \A j \in 1..(i - 1) : s[j] /= tok

\* s.partition(tok) -> <<pre, post>>, for tok in s
Partition(s, tok) ==
    LET i == FirstIndex(tok, s) IN <<SubSeq(s, 1, i - 1), SubSeq(s, i + 1, Len(s))>>

\* s.rstrip("/")
RECURSIVE RStripSlash(_)
RStripSlash(s) ==
    IF s /= <<>> /\ s[Len(s)] = SLASH THEN RStripSlash(SubSeq(s, 1, Len(s) - 1)) ELSE s

\* s.replace(tok, by)
Replace(s, tok, by) == [i \in 1..Len(s) |-> IF s[i] = tok THEN by ELSE s[i]]

(***************************************************************************)
(* GithubRepoWrapper.parent_children                                       *)
(*                                                                         *)
(* An endpoint declaration is a dict with keys name, endpoint and,         *)
(* optionally, id_name, root, children.  parent_map is an insertion-       *)
(* ordered dict from a segment to {entries, children}; it is modelled as   *)
(* the sequence of its items, [part, entries, children], in insertion      *)
(* order.                                                                  *)
(***************************************************************************)
FEATURE_PROFILE == <<SLASH, "v1", SLASH, "feature-profile", SLASH>>

HasPlaceholder(s) == InStr(PV, s) \/ InStr(PS, s)

\* split_parts without the rstrip("/") of the text before a placeholder
RECURSIVE split_parts_no_rstrip(_, _)
split_parts_no_rstrip(remaining, endpoint) ==
    IF remaining = <<>> THEN <<>>
    ELSE IF HasPlaceholder(remaining)
    THEN LET pp == Partition(remaining, IF InStr(PV, remaining) THEN PV ELSE PS)
         IN <<pp[1]>> \o split_parts_no_rstrip(pp[2], endpoint)
    ELSE IF HasPlaceholder(endpoint) \/ SubStr(FEATURE_PROFILE, endpoint)
    THEN <<RStripSlash(remaining)>>
    ELSE <<remaining>>

\* the while loop that splits the endpoint by placeholders
RECURSIVE split_parts(_, _)
split_parts(remaining, endpoint) ==
    IF remaining = <<>> THEN <<>>
    ELSE IF HasPlaceholder(remaining)
    THEN LET pp == Partition(remaining, IF InStr(PV, remaining) THEN PV ELSE PS)
         IN <<RStripSlash(pp[1])>> \o split_parts(pp[2], endpoint)
    ELSE IF HasPlaceholder(endpoint) \/ SubStr(FEATURE_PROFILE, endpoint)
    THEN <<RStripSlash(remaining)>>
    ELSE <<remaining>>

\* position of the key part in an ordered dict, 0 when absent
KeyIndex(level, part) ==
    IF \E i \in 1..Len(level) : level[i].part = part
    THEN CHOOSE i \in 1..Len(level) : level[i].part = part
    ELSE 0

NewNode(part) == [part |-> part, entries |-> <<>>, children |-> <<>>]

EntryNames(entries) == {entries[i].name : i \in 1..Len(entries)}

\* add_entry without the name test: every entry is appended
add_entry_always(node, entry) == [node EXCEPT !.entries = Append(@, entry)]

\* the name test that guards current_level["entries"].append(entry)
add_entry(node, entry) ==
    IF entry.name \notin EntryNames(node.entries)
    THEN [node EXCEPT !.entries = Append(@, entry)]
    ELSE node

RECURSIVE register_endpoint(_, _, _)
register_endpoint(level, parts, entry) ==
    LET idx == KeyIndex(level, Head(parts))
        level1 == IF idx = 0 THEN Append(level, NewNode(Head(parts))) ELSE level
        i == IF idx = 0 THEN Len(level1) ELSE idx
        node1 == IF Len(parts) = 1
                 THEN add_entry(level1[i], entry)
                 ELSE [level1[i] EXCEPT !.children = register_endpoint(@, Tail(parts), entry)]
    IN [level1 EXCEPT ![i] = node1]

\* the for loop over endpoints_list, from position i on
RECURSIVE register_all(_, _, _)
register_all(parent_map, endpoints_list, i) ==
    IF i > Len(endpoints_list) THEN parent_map
    ELSE LET endpoint_data == endpoints_list[i]
             entry == DelKey(endpoint_data, "endpoint")
             parts == split_parts(endpoint_data.endpoint, endpoint_data.endpoint)
         IN register_all(register_endpoint(parent_map, parts, entry), endpoints_list, i + 1)

RECURSIVE build_hierarchy(_)
\* build_entries that hands the children of a node without entries up to the
\* level of the node
build_entries_hoisting(content, built) ==
    IF content.entries = <<>> THEN built
    ELSE [e \in 1..Len(content.entries) |->
            LET entry == SetKey(content.entries[e], "endpoint", content.part)
            IN IF content.children /= <<>> THEN SetKey(entry, "children", built) ELSE entry]

\* the entries of one item (part, content) of node.items()
build_entries(content, built) ==
    [e \in 1..Len(content.entries) |->
        LET entry == SetKey(content.entries[e], "endpoint", content.part)
        IN IF content.children /= <<>> THEN SetKey(entry, "children", built) ELSE entry]

RECURSIVE concat_all(_)
concat_all(ss) == IF ss = <<>> THEN <<>> ELSE Head(ss) \o concat_all(Tail(ss))

build_hierarchy(node) ==
    concat_all([n \in 1..Len(node) |-> build_entries(node[n], build_hierarchy(node[n].children))])

parent_children(endpoints_list) == build_hierarchy(register_all(<<>>, endpoints_list, 1))

(***************************************************************************)
(* GithubRepoWrapper.move_meraki_root_to_child                             *)
(***************************************************************************)
HasEndpoint(endpoints_list, endpoint) ==
    \E i \in 1..Len(endpoints_list) : endpoints_list[i].endpoint = endpoint

\* the index half of find_first_endpoint_with_index (StopIteration when absent)
find_first_endpoint_with_index(endpoints_list, endpoint) ==
    CHOOSE i \in 1..Len(endpoints_list) :
        /\ endpoints_list[i].endpoint = endpoint
        /\ \A j \in 1..(i - 1) : endpoints_list[j].endpoint /= endpoint

find_first_endpoint(endpoints_list, endpoint) ==
    endpoints_list[find_first_endpoint_with_index(endpoints_list, endpoint)]

\* the list after pop_first_endpoint
pop_first_endpoint(endpoints_list, endpoint) ==
    LET i == find_first_endpoint_with_index(endpoints_list, endpoint)
    IN SubSeq(endpoints_list, 1, i - 1) \o SubSeq(endpoints_list, i + 1, Len(endpoints_list))

\* the assignments to target
retarget(target, root) ==
    LET t1 == SetKey(target, "children", root.children)
        t2 == IF HasKey(root, "id_name") THEN SetKey(t1, "id_name", root.id_name) ELSE t1
    IN SetKey(t2, "root", TRUE)

\* The entries of one node share their child entry objects, so the update of
\* target shows in every entry that sits at new_parent's segment.
move_meraki_root_to_child(endpoints_list, root_endpoint, new_parent_endpoint) ==
    LET root == find_first_endpoint(endpoints_list, root_endpoint)
        rest == pop_first_endpoint(endpoints_list, root_endpoint)
    IN [p \in 1..Len(rest) |->
          IF rest[p].endpoint = new_parent_endpoint
          THEN LET ti == find_first_endpoint_with_index(rest[p].children, root_endpoint)
               IN [rest[p] EXCEPT !.children[ti] = retarget(@, root)]
          ELSE rest[p]]

(***************************************************************************)
(* controller/meraki.py: identifier resolver and response processing       *)
(***************************************************************************)
\* endpoint.get("id_name", "id")
id_name_of(endpoint) == IF HasKey(endpoint, "id_name") THEN endpoint.id_name ELSE "id"

\* i[key]: the value, or the KeyError the lookup raises
GetItem(i, key) ==
    IF key \in DOMAIN i THEN [exc |-> "none", val |-> i[key]]
    ELSE [exc |-> "KeyError", val |-> None]

\* isinstance(x, str) or isinstance(x, int)
is_str_or_int(x) == x.t = "str" \/ x.t = "int" \/ x.t = "bool"

\* get_id_value that falls back to the key id when id_name is not a key
get_id_value_outcome_fallback(i, endpoint) ==
    LET got == GetItem(i, id_name_of(endpoint))
        by_id == GetItem(i, "id")
    IN IF got.exc /= "KeyError" /\ is_str_or_int(got.val) THEN got
       ELSE IF by_id.exc /= "KeyError" /\ is_str_or_int(by_id.val) THEN by_id
       ELSE [exc |-> "none", val |-> None]

\* get_id_value with what it raises: KeyError is caught and gives None
get_id_value_outcome(i, endpoint) ==
    LET got == GetItem(i, id_name_of(endpoint))
    IN IF got.exc = "KeyError" THEN [exc |-> "none", val |-> None]
       ELSE IF is_str_or_int(got.val) THEN got
       ELSE [exc |-> "none", val |-> None]

get_id_value(i, endpoint) == get_id_value_outcome(i, endpoint).val

\* f"{x}" for an identifier x (a str, an int or None)
Format(x) == x.v

\* The value stored under endpoint_dict[endpoint["name"]]: a list of records
\* or, for a singleton, one record (a dict).
LIST(items) == [kind |-> "list", items |-> items]
SINGLE(rec) == [kind |-> "dict", items |-> <<rec>>]

\* CiscoClientController.create_endpoint_dict(endpoint)[endpoint["name"]]
create_endpoint_dict(endpoint) == LIST(<<>>)

\* one appended record of the list and items branches
item_record(endpoint, i) ==
    [data |-> i,
     endpoint |-> endpoint.endpoint \o <<SLASH, Format(get_id_value(i, endpoint))>>]

\* the records appended for the elements of a list
item_records(endpoint, l) == [n \in 1..Len(l) |-> item_record(endpoint, l[n])]

\* data.get("items", None)
get_items(m) == IF HasKey(m, "items") THEN m.items ELSE None

\* the test of the elif that recognises a pagination envelope
is_envelope(m) == Truthy(get_items(m))

\* process_endpoint_data with a null response handled as an empty list
process_endpoint_data_null_as_empty(endpoint, result, data) ==
    IF data.t = "null" THEN result
    ELSE IF data.t = "list"
    THEN LIST(result.items \o item_records(endpoint, data.l))
    ELSE IF is_envelope(data.m)
    THEN LET items == IF get_items(data.m).t = "list" THEN get_items(data.m).l ELSE <<>>
         IN LIST(result.items \o item_records(endpoint, items))
    ELSE SINGLE([data |-> data.m, endpoint |-> endpoint.endpoint])

\* process_endpoint_data: the new value of endpoint_dict[endpoint["name"]]
process_endpoint_data(endpoint, result, data) ==
    IF data.t = "null"
    THEN LIST(Append(result.items, [data |-> EmptyDict, endpoint |-> endpoint.endpoint]))
    ELSE IF data.t = "list"
    THEN LIST(result.items \o item_records(endpoint, data.l))
    ELSE IF is_envelope(data.m)
    THEN LET items == IF get_items(data.m).t = "list" THEN get_items(data.m).l ELSE <<>>
         IN LIST(result.items \o item_records(endpoint, items))
    ELSE SINGLE([data |-> data.m, endpoint |-> endpoint.endpoint])

\* endpoint.get("children") as a truth value
has_children(endpoint) == HasKey(endpoint, "children") /\ endpoint.children /= <<>>

\* endpoint.get("root") as a truth value
is_root(endpoint) == HasKey(endpoint, "root") /\ endpoint.root

(***************************************************************************)
(* get_from_children_endpoints, piece by piece                             *)
(***************************************************************************)
\* parent_endpoint_ids without the "if parent_id is None: continue"
parent_endpoint_ids_keep_none(parent_endpoint, parent_endpoint_dict) ==
    [n \in 1..Len(parent_endpoint_dict) |->
        get_id_value(parent_endpoint_dict[n].data, parent_endpoint)]

\* the first loop: the non-None identifiers of the parent's records, in order
RECURSIVE parent_endpoint_ids(_, _)
parent_endpoint_ids(parent_endpoint, parent_endpoint_dict) ==
    IF parent_endpoint_dict = <<>> THEN <<>>
    ELSE LET parent_id == get_id_value(Head(parent_endpoint_dict).data, parent_endpoint)
             rest == parent_endpoint_ids(parent_endpoint, Tail(parent_endpoint_dict))
         IN IF parent_id = None THEN rest ELSE <<parent_id>> \o rest

\* effective_parent_uri without the root test
effective_parent_uri_no_root(parent_endpoint, parent_endpoint_uri) == parent_endpoint_uri

\* the base URI after the root test
effective_parent_uri(parent_endpoint, parent_endpoint_uri) ==
    IF is_root(parent_endpoint) THEN parent_endpoint.endpoint ELSE parent_endpoint_uri

\* f"{parent_endpoint_uri}/{parent_id}{children_endpoint['endpoint']}"
children_endpoint_uri(parent_endpoint_uri, parent_id, children_endpoint) ==
    parent_endpoint_uri \o <<SLASH, Format(parent_id)>> \o children_endpoint.endpoint

\* attach_children without the identifier test: every record gets the entry
attach_children_every_record(parent_endpoint, parent_endpoint_dict, parent_id, name, value) ==
    [index \in 1..Len(parent_endpoint_dict) |->
        LET rec == parent_endpoint_dict[index]
            old == IF HasKey(rec, "children") THEN rec.children ELSE EmptyDict
        IN SetKey(rec, "children", SetKey(old, name, value))]

\* the last loop: children[name] = value on every record whose identifier is parent_id
attach_children(parent_endpoint, parent_endpoint_dict, parent_id, name, value) ==
    [index \in 1..Len(parent_endpoint_dict) |->
        LET rec == parent_endpoint_dict[index]
            old == IF HasKey(rec, "children") THEN rec.children ELSE EmptyDict
        IN IF get_id_value(rec.data, parent_endpoint) = parent_id
           THEN SetKey(rec, "children", SetKey(old, name, value))
           ELSE rec]

(***************************************************************************)
(* cisco_client_meraki.py (legacy client): resolve_domains                 *)
(*                                                                         *)
(* Declarations are Python objects: the heap is the sequence of the        *)
(* objects allocated so far and an address is an index in it.  A dict      *)
(* object holds the declaration's name, its endpoint (a str) and the       *)
(* address of its children list (0: no children key); a list object holds  *)
(* the addresses of its elements.                                          *)
(***************************************************************************)
DictObj(name, endpoint, children) ==
    [kind |-> "dict", name |-> name, endpoint |-> endpoint, children |-> children]
ListObj(elems) == [kind |-> "list", elems |-> elems]

\* allocation: the grown heap and the new object's address
Alloc(h, obj) == [h |-> Append(h, obj), a |-> Len(h) + 1]

\* copy.copy in place of copy.deepcopy: a new dict that shares the children
shallow_copy(h, a) == Alloc(h, h[a])

\* copy.deepcopy(object at a): the copy shares no object with the original
RECURSIVE deepcopy(_, _)
RECURSIVE deepcopy_elems(_, _, _, _)
deepcopy_elems(h, elems, i, copied) ==
    IF i > Len(elems) THEN [h |-> h, elems |-> copied]
    ELSE LET c == deepcopy(h, elems[i])
         IN deepcopy_elems(c.h, elems, i + 1, Append(copied, c.a))

deepcopy(h, a) ==
    IF h[a].kind = "list"
    THEN LET c == deepcopy_elems(h, h[a].elems, 1, <<>>)
         IN Alloc(c.h, ListObj(c.elems))
    ELSE IF h[a].children = 0
    THEN Alloc(h, h[a])
    ELSE LET c == deepcopy(h, h[a].children)
         IN Alloc(c.h, [h[a] EXCEPT !.children = c.a])

\* the loop over domains for one domain-specific endpoint, from domain d on
RECURSIVE expand_domains(_, _, _, _, _, _)
expand_domains(h, endpoint, base_endpoint, domains, d, new_endpoints) ==
    IF d > Len(domains) THEN [h |-> h, out |-> new_endpoints]
    ELSE LET h1 == [h EXCEPT ![endpoint].endpoint = Replace(base_endpoint, DOMAIN_UUID, domains[d])]
             c == deepcopy(h1, endpoint)
         IN expand_domains(c.h, endpoint, base_endpoint, domains, d + 1, Append(new_endpoints, c.a))

\* the loop over endpoints, from position i on
RECURSIVE resolve_from(_, _, _, _, _)
resolve_from(h, endpoints, domains, i, new_endpoints) ==
    IF i > Len(endpoints) THEN [h |-> h, out |-> new_endpoints]
    ELSE IF ~InStr(DOMAIN_UUID, h[endpoints[i]].endpoint)
    THEN LET c == deepcopy(h, endpoints[i])
         IN resolve_from(c.h, endpoints, domains, i + 1, Append(new_endpoints, c.a))
    ELSE LET r == expand_domains(h, endpoints[i], h[endpoints[i]].endpoint, domains, 1,
                                 new_endpoints)
         IN resolve_from(r.h, endpoints, domains, i + 1, r.out)

\* resolve_domains(endpoints, domains): the heap after the call and new_endpoints
resolve_domains(h, endpoints, domains) == resolve_from(h, endpoints, domains, 1, <<>>)

\* the value an object stands for: a declaration with its children, in full
RECURSIVE Deref(_, _)
Deref(h, a) ==
    IF h[a].kind = "list" THEN [n \in 1..Len(h[a].elems) |-> Deref(h, h[a].elems[n])]
    ELSE [name |-> h[a].name,
          endpoint |-> h[a].endpoint,
          has_children |-> h[a].children /= 0,
          children |-> IF h[a].children = 0 THEN <<>> ELSE Deref(h, h[a].children)]

\* longest list of domains
MaxDomains == 2
\* longest list of declarations handed to resolve_domains
MaxEndpoints == 2

DomainNames == {"d1", "d2"}
FMC_DEVICES == <<SLASH, "domain", SLASH, DOMAIN_UUID, SLASH, "devices">>
FMC_VERSION == <<SLASH, "info", SLASH, "version">>

\* the three shapes of declaration loaded from the endpoints file, as
\* <<name, endpoint, names of the children>>
DomainShapes ==
    { <<"device", FMC_DEVICES, <<"interface">>>>,
      <<"policy", FMC_DEVICES, <<>>>>,
      <<"version", FMC_VERSION, <<"detail">>>> }

\* the heap with the declaration of a shape loaded at its end: the child
\* dicts, the children list, then the declaration itself
Load(h, shape) ==
    IF shape[3] = <<>> THEN Append(h, DictObj(shape[1], shape[2], 0))
    ELSE h \o <<DictObj(shape[3][1], <<SLASH, shape[3][1]>>, 0),
                ListObj(<<Len(h) + 1>>),
                DictObj(shape[1], shape[2], Len(h) + 2)>>

RECURSIVE LoadAll(_, _)
LoadAll(h, shapes) == IF shapes = <<>> THEN h ELSE LoadAll(Load(h, Head(shapes)), Tail(shapes))

\* the addresses of the declarations that LoadAll loaded
RECURSIVE LoadedAt(_, _)
LoadedAt(n, shapes) ==
    IF shapes = <<>> THEN <<>>
    ELSE LET top == n + (IF Head(shapes)[3] = <<>> THEN 1 ELSE 3)
         IN <<top>> \o LoadedAt(top, Tail(shapes))


(***************************************************************************)
(* The walk: get_from_endpoints_data and get_from_children_endpoints       *)
(*                                                                         *)
(* The declarations walked are the compiler's output for a Meraki-like     *)
(* list: /organizations with the children /networks (moved root, itself    *)
(* with /wireless/ssids and, below it, /rules) and /admins, and the        *)
(* top-level /devices, whose identifier key is serial.                     *)
(***************************************************************************)
Decl(name, endpoint) == [name |-> name, endpoint |-> endpoint]

ORGANIZATIONS == <<SLASH, "organizations">>
NETWORKS == <<SLASH, "networks">>
DEVICES == <<SLASH, "devices">>

FlatEndpoints ==
    << Decl("orgs", ORGANIZATIONS),
       Decl("nets", ORGANIZATIONS \o <<SLASH, PV>> \o NETWORKS),
       Decl("admins", ORGANIZATIONS \o <<SLASH, PV, SLASH, "admins">>),
       Decl("ssids", NETWORKS \o <<SLASH, PV, SLASH, "wireless", SLASH, "ssids">>),
       Decl("rules", NETWORKS \o <<SLASH, PV, SLASH, "wireless", SLASH, "ssids", SLASH, PV, SLASH, "rules">>),
       SetKey(Decl("devs", DEVICES), "id_name", "serial"),
       Decl("network", NETWORKS) >>

\* get_definitions, lines 166-176, for the one moved root of this list
EndpointsData == move_meraki_root_to_child(parent_children(FlatEndpoints), NETWORKS, ORGANIZATIONS)

\* longest list of records the fetch of a top-level endpoint returns
MaxRecs == 2

Rec(idv) == [x \in {"id"} |-> idv]
NoIdRec == [x \in {"name"} |-> StrV("x")]

RECURSIVE SeqsUpTo(_, _)
SeqsUpTo(S, n) ==
    IF n = 0 THEN {<<>>}
    ELSE LET shorter == SeqsUpTo(S, n - 1)
         IN shorter \cup {Append(q, x) : q \in {r \in shorter : Len(r) = n - 1}, x \in S}

OrgRecs == {Rec(StrV("o1")), Rec(IntV("7")), NoIdRec}

\* fetch_data(uri): what the fetch collaborator may return for the endpoint named name
Responses(name) ==
    CASE name = "orgs" ->
            {None, MapV(Rec(StrV("o1"))), MapV([x \in {"items"} |-> ListV(<<>>)]),
             MapV([x \in {"items"} |-> StrV("next")]),
             MapV([x \in {"items"} |-> ListV(<<Rec(StrV("o1")), Rec(StrV("o2"))>>)])}
            \cup {ListV(l) : l \in SeqsUpTo(OrgRecs, MaxRecs)}
      [] name = "nets" ->
            {None, ListV(<<>>), ListV(<<Rec(StrV("n1"))>>),
             ListV(<<Rec(StrV("n1")), Rec(None)>>),
             ListV(<<Rec(StrV("n1")), SetKey(Rec(StrV("n1")), "name", StrV("twin"))>>),
             MapV(Rec(StrV("n1")))}
      [] name = "ssids" ->
            {None, ListV(<<>>), ListV(<<Rec(IntV("0"))>>), ListV(<<Rec(StrV("s1")), Rec(StrV("s2"))>>),
             MapV(Rec(StrV("s1")))}
      [] name = "rules" -> {None, ListV(<<>>), ListV(<<Rec(StrV("r1"))>>)}
      [] name = "admins" ->
            {ListV(<<>>), ListV(<<Rec(StrV("a1"))>>), MapV([x \in {"items"} |-> ListV(<<>>)]),
             MapV([x \in {"items"} |-> ListV(<<Rec(StrV("a1"))>>)])}
      [] name = "devs" ->
            {None, ListV(<<>>), ListV(<<SetKey(Rec(StrV("x")), "serial", StrV("Q2"))>>),
             ListV(<<Rec(StrV("x"))>>)}

VARIABLES
    world,       \* the response the controller gives for each endpoint fetched so far
    pos,         \* index in endpoints_data of the top-level endpoint being processed
    stack,       \* the active calls of get_from_children_endpoints, innermost last
    final_dict,  \* get_from_endpoints_data's final_dict
    fetched,     \* the URIs passed to fetch_data, in call order
    last_fetch,  \* the latest fetch that returned: its URI, response and processed result
    status       \* "running", "done", or the exception that ended the walk

walkVars == <<world, pos, stack, final_dict, fetched, last_fetch, status>>

VARIABLES
    id_rec,   \* the record handed to the resolver
    id_decl,  \* the endpoint declaration handed to the controller's resolver
    id_out,   \* what the call returned or raised
    id_pc     \* "start", then the resolver that ran: "controller" or "legacy"

idVars == <<id_rec, id_decl, id_out, id_pc>>

VARIABLES
    in_endpoints_list,      \* the argument of parent_children
    out_modified_endpoints,  \* its return value
    compile_pc           \* "start", then "done"

compileVars == <<in_endpoints_list, out_modified_endpoints, compile_pc>>

VARIABLES
    heap,          \* the objects
    in_endpoints,     \* resolve_domains' argument endpoints: the addresses of its elements
    in_domains,       \* resolve_domains' argument domains
    out_new_endpoints, \* the returned list: the addresses of its elements
    before,        \* the values of the elements of endpoints when the call was made
    returned,      \* the values of the elements of new_endpoints when the call returned
    touched,       \* the returned declaration whose children the caller then changed, or 0
    domain_pc      \* "start", "resolved", "mutated"

domainVars == <<heap, in_endpoints, in_domains, out_new_endpoints, before, returned, touched, domain_pc>>

vars == <<walkVars, idVars, compileVars, domainVars>>

\* the state of the operations that an action is not part of
OtherThanWalk == UNCHANGED <<idVars, compileVars, domainVars>>
OtherThanIds == UNCHANGED <<walkVars, compileVars, domainVars>>
OtherThanCompile == UNCHANGED <<walkVars, idVars, domainVars>>
OtherThanDomains == UNCHANGED <<walkVars, idVars, compileVars>>


\* the indexes at which the last loop finds a record whose identifier is parent_id
attached_indexes(parent_endpoint, parent_endpoint_dict, parent_id) ==
    {index \in 1..Len(parent_endpoint_dict) :
        get_id_value(parent_endpoint_dict[index].data, parent_endpoint) = parent_id}

\* A call of get_from_children_endpoints: its arguments (uri after the root
\* test), its list of identifiers and its position in the two nested loops.
Frame(parent_endpoint, parent_endpoint_uri, parent_endpoint_dict) ==
    [ep |-> parent_endpoint,
     arg_uri |-> parent_endpoint_uri,
     uri |-> effective_parent_uri(parent_endpoint, parent_endpoint_uri),
     recs |-> parent_endpoint_dict,
     ids |-> parent_endpoint_ids(parent_endpoint, parent_endpoint_dict),
     k |-> 1,
     j |-> 1,
     calls |-> <<>>,
     writes |-> <<>>]

\* both loops of the call are over
FrameDone(f) == f.ids = <<>> \/ f.k > Len(f.ep.children)

\* the log of a call's passes through the last loop: the child name stored and
\* the indexes of the records it was stored on
Written(f, name) ==
    Append(f.writes, [name |-> name, id |-> f.ids[f.j],
                      indexes |-> attached_indexes(f.ep, f.recs, f.ids[f.j])])

\* Advance with the two loops exchanged: identifiers outside, child nodes inside
Advance_id_major(f, name, value) ==
    LET recs == attach_children(f.ep, f.recs, f.ids[f.j], name, value)
    IN IF f.k < Len(f.ep.children)
       THEN [f EXCEPT !.recs = recs, !.writes = Written(f, name), !.k = f.k + 1]
       ELSE IF f.j < Len(f.ids)
       THEN [f EXCEPT !.recs = recs, !.writes = Written(f, name), !.k = 1, !.j = f.j + 1]
       ELSE [f EXCEPT !.recs = recs, !.writes = Written(f, name), !.j = 1, !.k = f.k + 1]

\* the frame after one pass of the inner loop stored value under name
Advance(f, name, value) ==
    LET recs == attach_children(f.ep, f.recs, f.ids[f.j], name, value)
    IN IF f.j < Len(f.ids)
       THEN [f EXCEPT !.recs = recs, !.writes = Written(f, name), !.j = f.j + 1]
       ELSE [f EXCEPT !.recs = recs, !.writes = Written(f, name), !.j = 1, !.k = f.k + 1]

Top == stack[Len(stack)]
Pop == SubSeq(stack, 1, Len(stack) - 1)

\* the record of a fetch: depth 0 is a top-level endpoint, depth d > 0 a child
\* endpoint fetched by the d-th nested call for its record parent_id
Fetch(depth, uri, endpoint, data, result, parent, parent_uri, parent_id) ==
    [depth |-> depth, uri |-> uri, endpoint |-> endpoint, data |-> data, result |-> result,
     parent |-> parent, parent_uri |-> parent_uri, parent_id |-> parent_id]

NoFetch == Fetch(-1, <<>>, EmptyDict, None, LIST(<<>>), EmptyDict, <<>>, None)

\* the innermost call has issued the fetch of uri
Called(f, name, uri) ==
    [f EXCEPT !.calls = Append(@, [name |-> name, id |-> f.ids[f.j], uri |-> uri])]

\* the URI the innermost call fetches next
NextChildUri == children_endpoint_uri(Top.uri, Top.ids[Top.j], Top.ep.children[Top.k])

\* the controller answers the same way each time an endpoint is asked for
Answers(name, data) ==
    /\ IF name \in DOMAIN world THEN data = world[name] ELSE data \in Responses(name)
    /\ world' = SetKey(world, name, data)

AtTopLevel == status = "running" /\ stack = <<>> /\ pos <= Len(EndpointsData)
AtChild == status = "running" /\ stack /= <<>> /\ ~FrameDone(Top)

AtFetch == AtTopLevel \/ AtChild

\* the loop of get_from_endpoints_data moves to the next endpoint
StoreTopLevel(name, value) ==
    /\ final_dict' = SetKey(final_dict, name, value)
    /\ pos' = pos + 1
    /\ status' = IF pos + 1 > Len(EndpointsData) THEN "done" ELSE "running"

WalkInit ==
    /\ world = EmptyDict
    /\ pos = 1
    /\ stack = <<>>
    /\ final_dict = EmptyDict
    /\ fetched = <<>>
    /\ last_fetch = NoFetch
    /\ status = "running"

\* lines 159-172: fetch a top-level endpoint and process the response
TopLevelFetch ==
    /\ AtTopLevel
    /\ \E data \in Responses(EndpointsData[pos].name) :
        LET endpoint == EndpointsData[pos]
            result == process_endpoint_data(endpoint, create_endpoint_dict(endpoint), data)
        IN /\ Answers(endpoint.name, data)
           /\ fetched' = Append(fetched, endpoint.endpoint)
           /\ last_fetch' = Fetch(0, endpoint.endpoint, endpoint, data, result, EmptyDict, <<>>, None)
           /\ IF ~has_children(endpoint)
              THEN StoreTopLevel(endpoint.name, result) /\ stack' = stack
              ELSE IF result.kind = "dict"
              THEN status' = "TypeError" /\ UNCHANGED <<pos, stack, final_dict>>
              ELSE /\ stack' = <<Frame(endpoint, endpoint.endpoint, result.items)>>
                   /\ UNCHANGED <<pos, final_dict, status>>
    /\ OtherThanWalk

\* lines 203-224: one pass of the inner loop up to the recursive call
ChildFetch ==
    /\ AtChild
    /\ \E data \in Responses(Top.ep.children[Top.k].name) :
        LET children_endpoint == Top.ep.children[Top.k]
            uri == NextChildUri
            result == process_endpoint_data(children_endpoint,
                                            create_endpoint_dict(children_endpoint), data)
            caller == Called(Top, children_endpoint.name, uri)
        IN /\ Answers(children_endpoint.name, data)
           /\ fetched' = Append(fetched, uri)
           /\ last_fetch' = Fetch(Len(stack), uri, children_endpoint, data, result,
                                  Top.ep, Top.arg_uri, Top.ids[Top.j])
           /\ IF ~has_children(children_endpoint)
              THEN /\ stack' = Append(Pop, Advance(caller, children_endpoint.name, result))
                   /\ status' = status
              ELSE IF result.kind = "dict"
              THEN status' = "TypeError" /\ stack' = Append(Pop, caller)
              ELSE /\ stack' = Append(Append(Pop, caller),
                                      Frame(children_endpoint, uri, result.items))
                   /\ status' = status
           /\ UNCHANGED <<pos, final_dict>>
    /\ OtherThanWalk

\* A call of get_from_children_endpoints returns: its caller stores the list
\* it was given (lines 226-233), or the top-level loop saves it (line 175).
Return ==
    /\ status = "running"
    /\ stack /= <<>>
    /\ FrameDone(Top)
    /\ IF Len(stack) = 1
       THEN StoreTopLevel(Top.ep.name, LIST(Top.recs)) /\ stack' = <<>>
       ELSE /\ stack' = Append(SubSeq(stack, 1, Len(stack) - 2),
                               Advance(stack[Len(stack) - 1], Top.ep.name, LIST(Top.recs)))
            /\ UNCHANGED <<pos, final_dict, status>>
    /\ UNCHANGED <<world, fetched, last_fetch>>
    /\ OtherThanWalk

\* fetch_data raises: nothing catches it, the walk ends
FetchRaises ==
    /\ AtFetch
    /\ fetched' = Append(fetched, IF stack = <<>> THEN EndpointsData[pos].endpoint ELSE NextChildUri)
    /\ status' = "FetchError"
    /\ UNCHANGED <<world, pos, stack, final_dict, last_fetch>>
    /\ OtherThanWalk

WalkNext == TopLevelFetch \/ ChildFetch \/ Return \/ FetchRaises

(***************************************************************************)
(* cisco_client_meraki.py (legacy client): get_id_value                    *)
(***************************************************************************)
\* legacy get_id_value with the keys tried in the order uuid, id, name
legacy_get_id_value_outcome_uuid_first(i) ==
    LET by_id == GetItem(i, "id")
        by_uuid == GetItem(i, "uuid")
        by_name == GetItem(i, "name")
    IN IF by_uuid.exc /= "KeyError" THEN by_uuid
       ELSE IF by_id.exc /= "KeyError" THEN by_id
       ELSE IF by_name.exc /= "KeyError" THEN by_name
       ELSE [exc |-> "none", val |-> None]

\* the nested try blocks: the value of the first of id, uuid, name that is a key
legacy_get_id_value_outcome(i) ==
    LET by_id == GetItem(i, "id")
        by_uuid == GetItem(i, "uuid")
        by_name == GetItem(i, "name")
    IN IF by_id.exc /= "KeyError" THEN by_id
       ELSE IF by_uuid.exc /= "KeyError" THEN by_uuid
       ELSE IF by_name.exc /= "KeyError" THEN by_name
       ELSE [exc |-> "none", val |-> None]

legacy_get_id_value(i) == legacy_get_id_value_outcome(i).val

(***************************************************************************)
(* The identifier resolvers applied to one record                          *)
(***************************************************************************)
IdKeys == {"id", "uuid", "name", "serial"}
IdValues == {StrV("x"), IntV("7"), BoolV("True"), None, ListV(<<>>)}

\* the records: every dict over a subset of IdKeys with values in IdValues
IdRecords == UNION {[ks -> IdValues] : ks \in SUBSET IdKeys}

\* the declarations: id_name not declared, or declared as serial or name
IdDecls == {Decl("e", DEVICES), SetKey(Decl("e", DEVICES), "id_name", "serial"),
            SetKey(Decl("e", DEVICES), "id_name", "name")}


IdIdle ==
    /\ id_rec = EmptyDict
    /\ id_decl = Decl("e", DEVICES)
    /\ id_out = [exc |-> "none", val |-> None]
    /\ id_pc = "idle"

IdInit ==
    /\ id_rec \in IdRecords
    /\ id_decl \in IdDecls
    /\ id_out = [exc |-> "none", val |-> None]
    /\ id_pc = "start"

\* controller/meraki.py get_id_value(id_rec, id_decl)
ResolveController ==
    /\ id_pc = "start"
    /\ id_out' = get_id_value_outcome(id_rec, id_decl)
    /\ id_pc' = "controller"
    /\ UNCHANGED <<id_rec, id_decl>>
    /\ OtherThanIds

\* cisco_client_meraki.py get_id_value(id_rec)
ResolveLegacy ==
    /\ id_pc = "start"
    /\ id_out' = legacy_get_id_value_outcome(id_rec)
    /\ id_pc' = "legacy"
    /\ UNCHANGED <<id_rec, id_decl>>
    /\ OtherThanIds

IdNext == ResolveController \/ ResolveLegacy

(***************************************************************************)
(* parent_children applied to one declaration list                         *)
(***************************************************************************)
\* longest declaration list compiled
MaxDecls == 3

A == <<SLASH, "a">>
Templates ==
    { A,
      A \o <<SLASH, PV>>,
      A \o <<SLASH, PV, SLASH, "b">>,
      A \o <<SLASH, PV, SLASH, "c">>,
      A \o <<SLASH, PS, SLASH, "b">>,
      A \o <<SLASH, PS, SLASH, "b", SLASH, PV>>,
      A \o <<SLASH, PS, SLASH, "b", SLASH, PV, SLASH, "c">>,
      A \o <<SLASH, PV, SLASH, "b", SLASH, PS, SLASH, "c">> }
DeclNames == {"p", "q"}
CompileDecls ==
    {Decl(n, e) : n \in DeclNames, e \in Templates}
    \cup {SetKey(Decl("p", A), "id_name", "serial")}


CompileIdle ==
    /\ in_endpoints_list = <<>>
    /\ out_modified_endpoints = <<>>
    /\ compile_pc = "idle"

CompileInit ==
    /\ in_endpoints_list \in SeqsUpTo(CompileDecls, MaxDecls)
    /\ out_modified_endpoints = <<>>
    /\ compile_pc = "start"

\* modified_endpoints = parent_children(endpoints_list)
Compile ==
    /\ compile_pc = "start"
    /\ out_modified_endpoints' = parent_children(in_endpoints_list)
    /\ compile_pc' = "done"
    /\ UNCHANGED in_endpoints_list
    /\ OtherThanCompile

CompileNext == Compile

Values(h, addrs) == [n \in 1..Len(addrs) |-> Deref(h, addrs[n])]

DomainIdle ==
    /\ heap = <<>>
    /\ in_endpoints = <<>>
    /\ in_domains = <<>>
    /\ out_new_endpoints = <<>>
    /\ before = <<>>
    /\ returned = <<>>
    /\ touched = 0
    /\ domain_pc = "idle"

DomainInit ==
    /\ \E shapes \in SeqsUpTo(DomainShapes, MaxEndpoints) \ {<<>>} :
        /\ heap = LoadAll(<<>>, shapes)
        /\ in_endpoints = LoadedAt(0, shapes)
        /\ before = Values(LoadAll(<<>>, shapes), LoadedAt(0, shapes))
    /\ in_domains \in SeqsUpTo(DomainNames, MaxDomains)
    /\ out_new_endpoints = <<>>
    /\ returned = <<>>
    /\ touched = 0
    /\ domain_pc = "start"

\* new_endpoints = resolve_domains(endpoints, domains)
ResolveDomains ==
    /\ domain_pc = "start"
    /\ LET r == resolve_domains(heap, in_endpoints, in_domains)
       IN /\ heap' = r.h
          /\ out_new_endpoints' = r.out
          /\ returned' = Values(r.h, r.out)
    /\ domain_pc' = "resolved"
    /\ UNCHANGED <<in_endpoints, in_domains, before, touched>>
    /\ OtherThanDomains

\* the caller renames the first child of one returned declaration
RenameChild ==
    /\ domain_pc = "resolved"
    /\ \E n \in 1..Len(out_new_endpoints) :
        /\ heap[out_new_endpoints[n]].children /= 0
        /\ heap' = [heap EXCEPT ![heap[heap[out_new_endpoints[n]].children].elems[1]].name = "renamed"]
        /\ touched' = n
    /\ domain_pc' = "mutated"
    /\ UNCHANGED <<in_endpoints, in_domains, out_new_endpoints, before, returned>>
    /\ OtherThanDomains

\* the caller appends a child to the children of one returned declaration
AppendChild ==
    /\ domain_pc = "resolved"
    /\ \E n \in 1..Len(out_new_endpoints) :
        /\ heap[out_new_endpoints[n]].children /= 0
        /\ LET list == heap[out_new_endpoints[n]].children
               new == Alloc(heap, DictObj("added", <<SLASH, "added">>, 0))
           IN heap' = [new.h EXCEPT ![list].elems = Append(@, new.a)]
        /\ touched' = n
    /\ domain_pc' = "mutated"
    /\ UNCHANGED <<in_endpoints, in_domains, out_new_endpoints, before, returned>>
    /\ OtherThanDomains

DomainNext == ResolveDomains \/ RenameChild \/ AppendChild

(***************************************************************************)
(* Specifications: one per operation, the other operations' state idle     *)
(***************************************************************************)
WalkIdle ==
    /\ world = EmptyDict
    /\ pos = 1
    /\ stack = <<>>
    /\ final_dict = EmptyDict
    /\ fetched = <<>>
    /\ last_fetch = NoFetch
    /\ status = "idle"

Init == WalkInit /\ IdIdle /\ CompileIdle /\ DomainIdle
Next == WalkNext
Spec == Init /\ [][Next]_vars

InitIds == IdInit /\ WalkIdle /\ CompileIdle /\ DomainIdle
NextIds == IdNext
SpecIds == InitIds /\ [][NextIds]_vars

InitCompile == CompileInit /\ WalkIdle /\ IdIdle /\ DomainIdle
NextCompile == CompileNext
SpecCompile == InitCompile /\ [][NextCompile]_vars

InitDomains == DomainInit /\ WalkIdle /\ IdIdle /\ CompileIdle
NextDomains == DomainNext
SpecDomains == InitDomains /\ [][NextDomains]_vars

(***************************************************************************)
(* Properties of the walk                                                  *)
(***************************************************************************)
\* the records a fetch produced from the elements of a list or of an envelope
ItemRecords(f) == IF f.data.t /= "null" /\ f.result.kind = "list" THEN f.result.items ELSE <<>>

IsPrefix(p, u) == Len(p) <= Len(u) /\ SubSeq(u, 1, Len(p)) = p

\* a record's identifier under the declaration it was fetched for
IdOf(rec, endpoint) == get_id_value(rec.data, endpoint)

\* the declaration named name, searched through a list of declarations
RECURSIVE DeclsIn(_)
DeclsIn(decls) ==
    UNION {{decls[n]} \cup (IF has_children(decls[n]) THEN DeclsIn(decls[n].children) ELSE {})
           : n \in 1..Len(decls)}
DeclNamed(name) == CHOOSE d \in DeclsIn(EndpointsData) : d.name = name

\* every <<name, value>> stored in a result document, at any depth
RECURSIVE ResultsIn(_)
ResultsIn(doc) ==
    UNION {{<<name, doc[name]>>}
           \cup UNION {IF HasKey(doc[name].items[n], "children")
                       THEN ResultsIn(doc[name].items[n].children) ELSE {}
                       : n \in 1..Len(doc[name].items)}
           : name \in DOMAIN doc}

\* the result documents under construction: final_dict and each call's list
LiveResults ==
    ResultsIn(final_dict)
    \cup UNION {ResultsIn([x \in {stack[d].ep.name} |-> LIST(stack[d].recs)]) : d \in 1..Len(stack)}

\* C1: every record returned for a child node has as its endpoint field the
\* full URI the child collection was fetched from, then "/" and the record's
\* identifier (/organizations/o1/networks/n1 for network n1 of organization o1).
C1_ChildEndpointIsSourceUri ==
    last_fetch.depth > 0 =>
        \A n \in 1..Len(ItemRecords(last_fetch)) :
            LET rec == ItemRecords(last_fetch)[n]
            IN IdOf(rec, last_fetch.endpoint) /= None =>
                rec.endpoint = last_fetch.uri \o <<SLASH, Format(IdOf(rec, last_fetch.endpoint))>>

\* C3: the URI fetched for a child C of a node N is N's own segment, "/", the
\* N-record's identifier and C's segment when N is marked root, and is then
\* not prefixed by the URI N was listed under; when N is not marked root it is
\* the URI N was fetched from, "/", the identifier and C's segment.  Every
\* child fetch, at any depth, obeys this.
C3_RootRedirection ==
    last_fetch.depth > 0 =>
        LET N == last_fetch.parent
            tail == <<SLASH, Format(last_fetch.parent_id)>> \o last_fetch.endpoint.endpoint
        IN /\ last_fetch.parent_id /= None
           /\ \E n \in 1..Len(fetched) : fetched[n] = last_fetch.uri
           /\ IF HasKey(N, "root") /\ N.root
              THEN /\ last_fetch.uri = N.endpoint \o tail
                   /\ ~IsPrefix(last_fetch.parent_uri, last_fetch.uri)
              ELSE last_fetch.uri = last_fetch.parent_uri \o tail

\* C3 witness: the rules of ssid s1 of network n1, two levels below the root
\* node /networks, have been fetched from /networks/n1/wireless/ssids/s1/rules
C3_Witness ==
    /\ last_fetch.depth = 3
    /\ last_fetch.endpoint.name = "rules"
    /\ last_fetch.uri = NETWORKS \o <<SLASH, "n1", SLASH, "wireless", SLASH, "ssids", SLASH, "s1", SLASH, "rules">>
    /\ \E n \in 1..Len(fetched) : fetched[n] = ORGANIZATIONS \o <<SLASH, "o1">> \o NETWORKS
    /\ \E n \in 1..Len(fetched) : fetched[n] = NETWORKS \o <<SLASH, "n1", SLASH, "wireless", SLASH, "ssids">>

\* the identifiers a call's records resolve to, None left out, in record order
NonNullIds(f) ==
    LET ok == {n \in 1..Len(f.recs) : IdOf(f.recs[n], f.ep) /= None}
        nth(m) == CHOOSE n \in ok : Cardinality({x \in ok : x < n}) = m - 1
    IN [m \in 1..Cardinality(ok) |-> IdOf(f.recs[nth(m)], f.ep)]

\* the fetches a call issued for its k-th child node, in call order
CallsFor(f, k) ==
    LET mine == {c \in 1..Len(f.calls) : f.calls[c].name = f.ep.children[k].name}
        nth(m) == CHOOSE c \in mine : Cardinality({x \in mine : x < c}) = m - 1
    IN [m \in 1..Cardinality(mine) |-> f.calls[nth(m)]]

\* C4: a parent record whose identifier resolves to null stays in its node's
\* result set, causes no child fetch and never gets a children key; for each
\* child node a finished call has issued one fetch per parent record with a
\* non-null identifier, in record order, each scoped to that identifier.
C4_NullIdentifierSkipped ==
    /\ \A r \in LiveResults :
        /\ world[r[1]].t = "list" =>
              [n \in 1..Len(r[2].items) |-> r[2].items[n].data] = world[r[1]].l
        /\ \A n \in 1..Len(r[2].items) :
              IdOf(r[2].items[n], DeclNamed(r[1])) = None => ~HasKey(r[2].items[n], "children")
    /\ \A d \in 1..Len(stack) :
        /\ \A c \in 1..Len(stack[d].calls) :
              /\ stack[d].calls[c].id /= None
              /\ \E k \in 1..Len(stack[d].ep.children) :
                    /\ stack[d].ep.children[k].name = stack[d].calls[c].name
                    /\ stack[d].calls[c].uri =
                          stack[d].uri \o <<SLASH, Format(stack[d].calls[c].id)>>
                          \o stack[d].ep.children[k].endpoint
              /\ \E n \in 1..Len(fetched) : fetched[n] = stack[d].calls[c].uri
        /\ FrameDone(stack[d]) =>
              \A k \in 1..Len(stack[d].ep.children) :
                  [m \in 1..Len(CallsFor(stack[d], k)) |-> CallsFor(stack[d], k)[m].id]
                  = NonNullIds(stack[d])

\* C4 witness: the call for the networks [n1, a record whose id is null] is
\* over: one fetch was issued for its one child node, scoped to n1
C4_Witness ==
    /\ stack /= <<>>
    /\ Top.ep.name = "nets"
    /\ Len(Top.ep.children) = 1
    /\ FrameDone(Top)
    /\ Len(Top.recs) = 2
    /\ IdOf(Top.recs[1], Top.ep) = StrV("n1")
    /\ IdOf(Top.recs[2], Top.ep) = None
    /\ HasKey(Top.recs[1], "children")
    /\ ~HasKey(Top.recs[2], "children")
    /\ Len(Top.calls) = 1
    /\ Top.calls[1].uri = NETWORKS \o <<SLASH, "n1", SLASH, "wireless", SLASH, "ssids">>

\* the placeholder record of a null response
Placeholder(endpoint) == [data |-> EmptyDict, endpoint |-> endpoint.endpoint]

\* C8 as stated: a fetch that returns null gives the node the result set that
\* a fetch returning the empty sequence gives it.
C8_NullSameAsEmpty ==
    (last_fetch.depth >= 0 /\ last_fetch.data = None) =>
        last_fetch.result = LIST(<<>>)

\* C8 amended: a null response gives the node one placeholder record (empty
\* data, the declaration's segment as endpoint) where an empty sequence gives
\* it no record; in both cases no child of the node is fetched: a call made
\* for such a result set has no identifier to loop over and issues no fetch.
C8_NullIsPlaceholder ==
    /\ (last_fetch.depth >= 0 /\ last_fetch.data = None) =>
          last_fetch.result = LIST(<<Placeholder(last_fetch.endpoint)>>)
    /\ (last_fetch.depth >= 0 /\ last_fetch.data = ListV(<<>>)) =>
          last_fetch.result = LIST(<<>>)
    /\ \A d \in 1..Len(stack) :
          (stack[d].recs = <<>> \/ stack[d].recs = <<Placeholder(stack[d].ep)>>) =>
              stack[d].ids = <<>> /\ stack[d].calls = <<>> /\ FrameDone(stack[d])
    /\ \A r \in LiveResults :
          world[r[1]] = None => r[2] = LIST(<<Placeholder(DeclNamed(r[1]))>>)

\* C8 witness: the networks of an organization came back null; the call made
\* for the placeholder is over without a fetch
C8_Witness ==
    /\ last_fetch.depth = 1
    /\ last_fetch.endpoint.name = "nets"
    /\ last_fetch.data = None
    /\ Len(stack) = 2
    /\ Top.recs = <<Placeholder(Top.ep)>>
    /\ FrameDone(Top)
    /\ fetched[Len(fetched)] = last_fetch.uri

\* C9: a response that is a mapping with the key items is a pagination
\* envelope: if items is a sequence the node's result is the sequence of one
\* record per element, in order; otherwise it is the empty sequence; the
\* envelope is never stored as a singleton record.
C9_ItemsIsEnvelope ==
    (last_fetch.depth >= 0 /\ last_fetch.data.t = "map" /\ HasKey(last_fetch.data.m, "items")) =>
        LET items == last_fetch.data.m.items
        IN /\ last_fetch.result.kind = "list"
           /\ IF items.t = "list"
              THEN /\ Len(last_fetch.result.items) = Len(items.l)
                   /\ \A n \in 1..Len(items.l) : last_fetch.result.items[n].data = items.l[n]
              ELSE last_fetch.result.items = <<>>

\* the walk stopped with a branch still to fetch: an identifier or a child
\* node left in one of the active calls, or a top-level endpoint left
PendingBranches ==
    \/ pos < Len(EndpointsData)
    \/ \E d \in 1..Len(stack) :
          stack[d].j < Len(stack[d].ids) \/ stack[d].k < Len(stack[d].ep.children)

\* C10: when the fetch of one branch raises, the walk still fetches every
\* sibling branch: it does not end while an identifier of that child, a child
\* node or a top-level endpoint is left unfetched.
C10_FailureKeepsSiblings == status = "FetchError" => ~PendingBranches

\* the fetches a call issues when it runs to its end: for each child node in
\* declared order, one per identifier in the order of the parent's records
Schedule(f) ==
    [c \in 1..(Len(f.ep.children) * Len(f.ids)) |->
        LET k == ((c - 1) \div Len(f.ids)) + 1
            j == ((c - 1) % Len(f.ids)) + 1
        IN [name |-> f.ep.children[k].name,
            id |-> f.ids[j],
            uri |-> children_endpoint_uri(f.uri, f.ids[j], f.ep.children[k])]]

\* the elements a response lists: those of a list, or of the items of an envelope
Listed(data) ==
    IF data.t = "list" THEN data.l
    ELSE IF data.t = "map" /\ is_envelope(data.m) /\ get_items(data.m).t = "list"
    THEN get_items(data.m).l
    ELSE <<>>

\* C11: the fetches are issued depth-first in declared order: each call has
\* issued a prefix of its schedule (child k for every identifier, in record
\* order, before child k+1); while the subtree of a branch is walked the
\* calling frame stays at that branch and issues nothing; and the records
\* stored for a node are in the order the response listed them.
C11_DepthFirstDeclaredOrder ==
    /\ \A d \in 1..Len(stack) :
        LET f == stack[d]
            at == (f.k - 1) * Len(f.ids) + f.j
        IN /\ IsPrefix(f.calls, Schedule(f))
           /\ d < Len(stack) =>
                 /\ Len(f.calls) = at
                 /\ f.calls[at].name = stack[d + 1].ep.name
                 /\ f.calls[at].uri = stack[d + 1].arg_uri
                 /\ fetched /= <<>>
           /\ (d = Len(stack) /\ status = "running") => Len(f.calls) = at - 1
           /\ FrameDone(f) => f.calls = Schedule(f)
    /\ \A r \in LiveResults :
          (world[r[1]].t = "list" \/ (world[r[1]].t = "map" /\ is_envelope(world[r[1]].m))) =>
              [n \in 1..Len(r[2].items) |-> r[2].items[n].data] = Listed(world[r[1]])
    /\ (status = "running" /\ stack /= <<>> /\ Top.calls /= <<>> /\ last_fetch.depth = Len(stack)) =>
          fetched[Len(fetched)] = Top.calls[Len(Top.calls)].uri

\* C11 witness: the call for the organizations o1 and 7 is over: it fetched
\* the networks of o1, then of 7, then the admins of o1, then of 7, and the
\* subtree of each network in between
C11_Witness ==
    /\ Len(stack) = 1
    /\ Top.ep.name = "orgs"
    /\ FrameDone(Top)
    /\ Len(Top.calls) = 4
    /\ [c \in 1..4 |-> Top.calls[c].name] = <<"nets", "nets", "admins", "admins">>
    /\ [c \in 1..4 |-> Top.calls[c].id] = <<StrV("o1"), IntV("7"), StrV("o1"), IntV("7")>>
    /\ Len(fetched) > 5

\* the passes of the inner loop that a call has been through, attach included
Completed(f) == SubSeq(f.calls, 1, (f.k - 1) * Len(f.ids) + f.j - 1)

\* the child nodes whose branch for the identifier id a call has been through
CompletedFor(f, id) ==
    {Completed(f)[c].name : c \in {x \in 1..Len(Completed(f)) : Completed(f)[x].id = id}}

ChildNames(endpoint) == {endpoint.children[k].name : k \in 1..Len(endpoint.children)}

\* C12 as stated: a record has a children key only when the fetches of all
\* the child endpoints declared for it, subtrees included, are over.
C12_ChildrenAfterAllChildEndpoints ==
    \A d \in 1..Len(stack) : \A n \in 1..Len(stack[d].recs) :
        HasKey(stack[d].recs[n], "children") =>
            CompletedFor(stack[d], IdOf(stack[d].recs[n], stack[d].ep)) = ChildNames(stack[d].ep)

\* C12 amended: a record has the entry children[name] exactly when the fetch
\* of the child endpoint name for the record's identifier, subtree included,
\* is over; the children key appears with the first such entry, while other
\* child endpoints of the record may still be unfetched, and a record of a
\* finished node has an entry for every declared child endpoint unless its
\* identifier is null.
C12_ChildrenEntryAfterItsChildEndpoint ==
    /\ \A d \in 1..Len(stack) : \A n \in 1..Len(stack[d].recs) :
          LET rec == stack[d].recs[n]
              over == CompletedFor(stack[d], IdOf(rec, stack[d].ep))
          IN IF over = {} THEN ~HasKey(rec, "children")
             ELSE HasKey(rec, "children") /\ DOMAIN rec.children = over
    /\ \A name \in DOMAIN final_dict :
          (has_children(DeclNamed(name)) /\ final_dict[name].kind = "list") =>
              \A n \in 1..Len(final_dict[name].items) :
                  LET rec == final_dict[name].items[n]
                  IN IF IdOf(rec, DeclNamed(name)) = None THEN ~HasKey(rec, "children")
                     ELSE HasKey(rec, "children")
                          /\ DOMAIN rec.children = ChildNames(DeclNamed(name))

\* C12 witness: organization o1 has its networks attached, subtree walked,
\* while its admins are still to be fetched
C12_Witness ==
    /\ status = "running"
    /\ Len(stack) = 1
    /\ Top.ep.name = "orgs"
    /\ Top.k = 2 /\ Top.j = 1
    /\ IdOf(Top.recs[1], Top.ep) = StrV("o1")
    /\ HasKey(Top.recs[1], "children")
    /\ DOMAIN Top.recs[1].children = {"nets"}
    /\ Len(fetched) > 2

\* the passes of a call that stored children[name] on its n-th record
WritesTo(f, n, name) ==
    {w \in 1..Len(f.writes) : f.writes[w].name = name /\ n \in f.writes[w].indexes}

\* C13: during one walk the entry children[name] of a parent record is written
\* at most once, by the one step that fetched that child for the record's
\* identifier, whatever records the fetch returned, two records with the
\* same identifier included.
C13_ChildrenEntryWrittenOnce ==
    \A d \in 1..Len(stack) : \A n \in 1..Len(stack[d].recs) :
        \A name \in ChildNames(stack[d].ep) :
            /\ Cardinality(WritesTo(stack[d], n, name)) <= 1
            /\ \A w \in WritesTo(stack[d], n, name) :
                  stack[d].writes[w].id = IdOf(stack[d].recs[n], stack[d].ep)

\* C18: a bare mapping without items returned for a node that has child
\* declarations is walked as one record: the walk does not raise, whatever
\* the shape of a response, and when it is over the singleton has, if its
\* identifier is not null, a children entry for each of its child endpoints.
C18_SingletonWalkedAsOneRecord ==
    /\ status /= "TypeError"
    /\ status = "done" =>
          \A r \in ResultsIn(final_dict) :
              (r[2].kind = "dict" /\ has_children(DeclNamed(r[1]))
               /\ IdOf(r[2].items[1], DeclNamed(r[1])) /= None) =>
                  /\ HasKey(r[2].items[1], "children")
                  /\ DOMAIN r[2].items[1].children = ChildNames(DeclNamed(r[1]))

(***************************************************************************)
(* Properties of the identifier resolvers                                  *)
(***************************************************************************)
\* a string or an integer; a JSON boolean is a Python int
StringOrInteger(x) == x.t \in {"str", "int", "bool"}

FallbackKeys == <<"id", "uuid", "name">>

\* C7 as stated: the legacy get_id_value returns the value of the first of the
\* keys id, uuid, name whose value is a string or an integer, null if none is.
C7_FirstStringOrInteger ==
    id_pc = "legacy" =>
        LET good == {n \in 1..3 : FallbackKeys[n] \in DOMAIN id_rec
                                  /\ StringOrInteger(id_rec[FallbackKeys[n]])}
        IN id_out.val = IF good = {} THEN None
                        ELSE id_rec[FallbackKeys[CHOOSE n \in good : \A m \in good : n <= m]]

\* C7 amended: the legacy get_id_value returns the value of the first of the
\* keys id, uuid, name that the record has, whatever that value is, and null
\* if it has none of them; it raises nothing.
C7_FirstPresentKey ==
    id_pc = "legacy" =>
        LET present == {n \in 1..3 : FallbackKeys[n] \in DOMAIN id_rec}
        IN /\ id_out.exc = "none"
           /\ id_out.val = IF present = {} THEN None
                           ELSE id_rec[FallbackKeys[CHOOSE n \in present : \A m \in present : n <= m]]

\* C7 witness: the record's id is null and its uuid is a string: the result
\* is the null id
C7_Witness ==
    /\ id_pc = "legacy"
    /\ HasKey(id_rec, "id")
    /\ id_rec.id = None
    /\ HasKey(id_rec, "uuid")
    /\ id_rec.uuid = StrV("x")
    /\ id_out.val = None

(***************************************************************************)
(* Properties of parent_children                                           *)
(***************************************************************************)
A_V == A \o <<SLASH, PV>>
A_V_B == A \o <<SLASH, PV, SLASH, "b">>
A_V_C == A \o <<SLASH, PV, SLASH, "c">>

TemplatesOf(list) == [n \in 1..Len(list) |-> list[n].endpoint]

\* one node with segment /a and exactly the two children /b and /c
OneNodeTwoChildren(out) ==
    /\ Len(out) = 1
    /\ out[1].endpoint = A
    /\ HasKey(out[1], "children")
    /\ TemplatesOf(out[1].children) = <<<<SLASH, "b">>, <<SLASH, "c">>>>

\* C2 as stated: the two templates /a/%v/b and /a/%v/c alone compile to one
\* node /a with exactly the children b and c; /a/%v alone compiles to the one
\* node /a, without children.
C2_SegmentGrouping ==
    compile_pc = "done" =>
        /\ TemplatesOf(in_endpoints_list) = <<A_V_B, A_V_C>> => OneNodeTwoChildren(out_modified_endpoints)
        /\ TemplatesOf(in_endpoints_list) = <<A_V>> =>
              out_modified_endpoints = <<Decl(in_endpoints_list[1].name, A)>>

\* C2 amended: the two templates /a/%v/b and /a/%v/c alone compile to the
\* empty list, no declaration resolving to /a; with a declaration of /a before
\* them they compile to one node /a, named after that declaration, with
\* exactly the children b and c; /a/%v alone compiles to the one node /a,
\* without children.
C2_SegmentGroupingUnderDeclaredParent ==
    compile_pc = "done" =>
        /\ TemplatesOf(in_endpoints_list) = <<A_V_B, A_V_C>> => out_modified_endpoints = <<>>
        /\ TemplatesOf(in_endpoints_list) = <<A, A_V_B, A_V_C>> =>
              /\ OneNodeTwoChildren(out_modified_endpoints)
              /\ out_modified_endpoints[1].name = in_endpoints_list[1].name
              /\ out_modified_endpoints[1].children
                 = <<Decl(in_endpoints_list[2].name, <<SLASH, "b">>),
                     Decl(in_endpoints_list[3].name, <<SLASH, "c">>)>>
        /\ TemplatesOf(in_endpoints_list) = <<A_V>> =>
              out_modified_endpoints = <<Decl(in_endpoints_list[1].name, A)>>

\* C2 witness: /a, /a/%v/b and /a/%v/c have been compiled to one node
C2_Witness ==
    /\ compile_pc = "done"
    /\ TemplatesOf(in_endpoints_list) = <<A, A_V_B, A_V_C>>
    /\ Len(out_modified_endpoints) = 1
    /\ Len(out_modified_endpoints[1].children) = 2

\* the segment path a declaration resolves to
PathOf(decl) == split_parts(decl.endpoint, decl.endpoint)

Paths(list) == {PathOf(list[i]) : i \in 1..Len(list)}

\* some declaration of the list resolves to every proper prefix of the path
AncestorsDeclared(list, path) ==
    \A n \in 1..(Len(path) - 1) : SubSeq(path, 1, n) \in Paths(list)

\* the declarations of the list that resolve to the path, the later ones of
\* an equal name left out, as their indexes in input order
KeptAt(list, path) ==
    LET kept == {i \in 1..Len(list) :
                    /\ PathOf(list[i]) = path
                    /\ \A h \in 1..(i - 1) :
                          PathOf(list[h]) = path => list[h].name /= list[i].name}
        nth(m) == CHOOSE i \in kept : Cardinality({x \in kept : x < i}) = m - 1
    IN [m \in 1..Cardinality(kept) |-> nth(m)]

\* the entries of the compiled tree at the position a path leads to
RECURSIVE EntriesAt(_, _)
EntriesAt(out, path) ==
    LET here == SelectSeq(out, LAMBDA e : e.endpoint = Head(path))
    IN IF Len(path) = 1 THEN here
       ELSE IF here = <<>> \/ ~HasKey(here[1], "children") THEN <<>>
       ELSE EntriesAt(here[1].children, Tail(path))

\* the segments one level below a path to which some declaration resolves
DeclaredBelow(list, path) ==
    {q[Len(path) + 1] : q \in {r \in Paths(list) : Len(r) = Len(path) + 1 /\ IsPrefix(path, r)}}

\* the segment paths to which two declarations or more resolve
SharedPaths(list) ==
    {path \in Paths(list) : \E i, j \in 1..Len(list) :
        i /= j /\ PathOf(list[i]) = path /\ PathOf(list[j]) = path}

\* the entries at the position of a path are the declarations that resolve to
\* it, one per name, in input order, each with the path's last segment as
\* endpoint and each with the node's whole list of children
CoResidentAt(path) ==
    LET got == EntriesAt(out_modified_endpoints, path)
        kept == KeptAt(in_endpoints_list, path)
        below == \E q \in Paths(in_endpoints_list) : Len(q) > Len(path) /\ IsPrefix(path, q)
    IN /\ Len(got) = Len(kept)
       /\ \A n \in 1..Len(got) :
             /\ (IF HasKey(got[n], "children") THEN DelKey(got[n], "children") ELSE got[n])
                = SetKey(DelKey(in_endpoints_list[kept[n]], "endpoint"),
                         "endpoint", path[Len(path)])
             /\ HasKey(got[n], "children") <=> below
             /\ HasKey(got[n], "children") =>
                   /\ got[n].children = got[1].children
                   /\ {got[n].children[c].endpoint : c \in 1..Len(got[n].children)}
                      = DeclaredBelow(in_endpoints_list, path)

\* C15 as stated: the declarations that resolve to one segment path appear at
\* that tree position as separate entries, one per name, in input order, each
\* with the path's last segment as endpoint and each with the node's whole
\* list of children; of the declarations of an equal name only the first is
\* kept.
C15_CoResidentEntries ==
    compile_pc = "done" => \A path \in SharedPaths(in_endpoints_list) : CoResidentAt(path)

\* C15 amended: the same, when every proper prefix of the shared segment path
\* has a declaration resolving to it; otherwise none of the declarations that
\* resolve to the path is in the output.
C15_CoResidentEntriesUnderDeclaredAncestors ==
    compile_pc = "done" =>
        \A path \in SharedPaths(in_endpoints_list) :
            IF AncestorsDeclared(in_endpoints_list, path) THEN CoResidentAt(path)
            ELSE EntriesAt(out_modified_endpoints, path) = <<>>

\* C15 witness: /a declared as p with an identifier key, then /a/%v/b, then
\* /a/%v declared as q: p and q are both at /a, each with the child b
C15_Witness ==
    /\ compile_pc = "done"
    /\ in_endpoints_list = <<SetKey(Decl("p", A), "id_name", "serial"), Decl("p", A_V_B), Decl("q", A_V)>>
    /\ Len(out_modified_endpoints) = 2
    /\ out_modified_endpoints[1].name = "p" /\ out_modified_endpoints[2].name = "q"
    /\ HasKey(out_modified_endpoints[1], "id_name")
    /\ out_modified_endpoints[1].children = out_modified_endpoints[2].children
    /\ Len(out_modified_endpoints[2].children) = 1

\* the literal parts of a template: the text between its placeholders, of
\* either kind, without the slashes that end a part
RECURSIVE LiteralParts(_)
LiteralParts(s) ==
    IF s = <<>> THEN <<>>
    ELSE IF ~HasPlaceholder(s) THEN <<RStripSlash(s)>>
    ELSE LET i == CHOOSE x \in 1..Len(s) :
                    s[x] \in {PV, PS} /\ \A y \in 1..(x - 1) : s[y] \notin {PV, PS}
         IN <<RStripSlash(SubSeq(s, 1, i - 1))>> \o LiteralParts(SubSeq(s, i + 1, Len(s)))

\* every entry of a compiled tree, at any depth
RECURSIVE AllEntries(_)
AllEntries(out) ==
    UNION {{out[n]} \cup (IF HasKey(out[n], "children") THEN AllEntries(out[n].children) ELSE {})
           : n \in 1..Len(out)}

\* C16: parent_children splits a template at every placeholder, %v or %s, in
\* whatever order the two kinds occur: no endpoint segment of the output holds
\* a placeholder, and a declaration is at the tree position its literal parts
\* lead to, level by level (when declarations lead to each level above it).
C16_SplitAtEveryPlaceholder ==
    compile_pc = "done" =>
        /\ \A e \in AllEntries(out_modified_endpoints) : ~HasPlaceholder(e.endpoint)
        /\ \A i \in 1..Len(in_endpoints_list) :
              LET parts == LiteralParts(in_endpoints_list[i].endpoint)
              IN (\A n \in 1..(Len(parts) - 1) :
                     \E h \in 1..Len(in_endpoints_list) :
                         LiteralParts(in_endpoints_list[h].endpoint) = SubSeq(parts, 1, n))
                 => \E e \in 1..Len(EntriesAt(out_modified_endpoints, parts)) :
                        EntriesAt(out_modified_endpoints, parts)[e].name = in_endpoints_list[i].name

\* every entry of a compiled tree with the segment path of its position, as
\* <<path, name>>
RECURSIVE EntryPaths(_, _)
EntryPaths(out, above) ==
    UNION {{<<Append(above, out[n].endpoint), out[n].name>>}
           \cup (IF HasKey(out[n], "children")
                 THEN EntryPaths(out[n].children, Append(above, out[n].endpoint))
                 ELSE {})
           : n \in 1..Len(out)}

\* C17: a declaration is in the compiled output, at the position of its
\* segment path, exactly when some declaration resolves to every proper
\* prefix of that path; below a segment to which no declaration resolves the
\* whole subtree is absent, and the output holds nothing else.
C17_UndeclaredAncestorDropsSubtree ==
    compile_pc = "done" =>
        /\ \A i \in 1..Len(in_endpoints_list) :
              LET path == PathOf(in_endpoints_list[i])
                  got == EntriesAt(out_modified_endpoints, path)
              IN (\E e \in 1..Len(got) : got[e].name = in_endpoints_list[i].name)
                 <=> AncestorsDeclared(in_endpoints_list, path)
        /\ EntryPaths(out_modified_endpoints, <<>>)
           = {<<PathOf(in_endpoints_list[i]), in_endpoints_list[i].name>> :
                 i \in {x \in 1..Len(in_endpoints_list) :
                           AncestorsDeclared(in_endpoints_list, PathOf(in_endpoints_list[x]))}}

\* C17 witness: /a/%v/c, /a/%v/b and /a/%v/b/%s/c are declared and nothing
\* resolves to /a: the two levels below /a are absent, the output is empty
C17_Witness ==
    /\ compile_pc = "done"
    /\ in_endpoints_list = <<Decl("p", A_V_C), Decl("q", A_V_B),
                             Decl("q", A_V_B \o <<SLASH, PS, SLASH, "c">>)>>
    /\ Paths(in_endpoints_list) = {<<A, <<SLASH, "c">>>>, <<A, <<SLASH, "b">>>>,
                                   <<A, <<SLASH, "b">>, <<SLASH, "c">>>>}
    /\ out_modified_endpoints = <<>>

(***************************************************************************)
(* Properties of resolve_domains                                           *)
(***************************************************************************)
HasToken(decl) == \E n \in 1..Len(decl.endpoint) : decl.endpoint[n] = DOMAIN_UUID

\* the declaration with the token of its endpoint replaced by domain
Substituted(decl, domain) ==
    [decl EXCEPT !.endpoint = [n \in 1..Len(@) |-> IF @[n] = DOMAIN_UUID THEN domain ELSE @[n]]]

\* what one declaration expands to
ExpansionOf(decl, doms) ==
    IF HasToken(decl) THEN [k \in 1..Len(doms) |-> Substituted(decl, doms[k])] ELSE <<decl>>

\* the objects reachable from an address
RECURSIVE Reach(_, _)
Reach(h, a) ==
    {a} \cup (IF h[a].kind = "list" THEN UNION {Reach(h, h[a].elems[n]) : n \in 1..Len(h[a].elems)}
              ELSE IF h[a].children = 0 THEN {} ELSE Reach(h, h[a].children))

\* C5: resolve_domains returns, in input order, for a declaration whose
\* endpoint holds {DOMAIN_UUID} one declaration per domain, the k-th with the
\* token replaced by the k-th domain (n domains give exactly n, none gives
\* none), and for any other declaration one copy; each returned declaration
\* has its own deep copy of the children: changing the children of one
\* changes no other returned declaration, nor the input.
C5_DomainExpansion ==
    domain_pc \in {"resolved", "mutated"} =>
        /\ returned = concat_all([i \in 1..Len(before) |-> ExpansionOf(before[i], in_domains)])
        /\ (Len(before) = 1 /\ HasToken(before[1])) => Len(out_new_endpoints) = Len(in_domains)
        /\ \A m, n \in 1..Len(out_new_endpoints) :
              m /= n => Reach(heap, out_new_endpoints[m]) \cap Reach(heap, out_new_endpoints[n]) = {}
        /\ domain_pc = "mutated" =>
              /\ Deref(heap, out_new_endpoints[touched]) /= returned[touched]
              /\ \A n \in 1..Len(out_new_endpoints) :
                    n /= touched => Deref(heap, out_new_endpoints[n]) = returned[n]
              /\ \A i \in 1..Len(in_endpoints) :
                    Deref(heap, in_endpoints[i]).children = before[i].children

\* C14: resolve_domains leaves its input unchanged: after the call the input
\* list and every field of every input declaration, the endpoint template of
\* a declaration with {DOMAIN_UUID} included, are what they were before it.
C14_InputUnchanged ==
    domain_pc = "resolved" => Values(heap, in_endpoints) = before

\* C5 witness: one declaration with the token and with children was expanded
\* for two domains and the caller changed the children of the first copy
C5_Witness ==
    /\ domain_pc = "mutated"
    /\ Len(before) = 1
    /\ HasToken(before[1])
    /\ before[1].has_children
    /\ in_domains = <<"d1", "d2">>
    /\ Len(out_new_endpoints) = 2
    /\ touched = 1
    /\ returned[2].endpoint = <<SLASH, "domain", SLASH, "d2", SLASH, "devices">>

====
